---- MODULE Spec2Model ----
(***************************************************************************)
(* SC._ObserverSet (src/private/observer_set.js): the registry of          *)
(* target/method observers of one key, with its cached list of members.    *)
(*                                                                         *)
(* Objects are modelled with JavaScript's property semantics: a registry   *)
(* is an object with a prototype (SC.beget), its own properties shadow     *)
(* the prototype's, a read walks the prototype chain and a write or a      *)
(* delete acts on the object itself.  The array kept in _members is an     *)
(* object of its own: it is named by the registry that allocated it.       *)
(***************************************************************************)
EXTENDS Integers, Sequences, FiniteSets, TLC

\* Bounds of the exploration.
MaxRegs == 2
MaxCalls == 4
MaxLen == 5
MaxArgs == 2

Regs == 1 .. MaxRegs

\* The values the callers pass.
Objects == {"X"}
Falsy == {"null", "undefined"}
Targets == Objects \cup Falsy
Methods == {"f", "g"}

YES == TRUE
NO == FALSE

\* The prototype object SC._ObserverSet itself and its two data properties.
SC__ObserverSet == 0
ProtoTargets == 0
ProtoMembersCacheIsValidStartsYes == YES
ProtoMembersCacheIsValid == NO

VARIABLES heap, call, held, nCalls, fmtCall

vars == <<heap, call, held, nCalls, fmtCall>>

----------------------------------------------------------------------------
\* Collaborators that live outside src/: SC.guidFor, SC.Set, SC.beget.

SC_guidFor(target) == <<"guid", target>>

Guids == {SC_guidFor(t) : t \in Objects} \cup {<<"__this__", "">>}

Range(s) == {s[i] : i \in 1 .. Len(s)}

IndexOf(s, x) == CHOOSE i \in 1 .. Len(s) : s[i] = x

\* A slot of a registry that holds no set (the property does not exist).
NoSet == [present |-> FALSE, target |-> "undefined", isTargetSet |-> NO,
          items |-> <<>>]

\* SC.Set.create(): an empty set; the caller stores target and isTargetSet.
SC_Set_create == [present |-> TRUE, target |-> "undefined", isTargetSet |-> NO,
                  items |-> <<>>]

\* SC.Set.add: a set holds an object once.
SC_Set_add(items, method) ==
    IF method \in Range(items) THEN items ELSE Append(items, method)

\* SC.Set.remove: the last item fills the hole; nothing happens if absent.
SC_Set_remove(items, method) ==
    IF method \notin Range(items) THEN items
    ELSE LET i == IndexOf(items, method)
             n == Len(items)
         IN  [j \in 1 .. (n - 1) |-> IF j = i THEN items[n] ELSE items[j]]

\* SC.Set.clone: a new set with the same items, of the same kind.
SC_Set_clone(set) == [set EXCEPT !.target = "undefined"]

\* An object that has no own property yet.
NoObject == [alive |-> FALSE, proto |-> SC__ObserverSet, from |-> 0,
             hasTargets |-> FALSE, targets |-> 0,
             hasValid |-> FALSE, membersCacheIsValid |-> NO,
             hasMembers |-> FALSE, members |-> <<>>,
             keys |-> <<>>, sets |-> [g \in Guids |-> NoSet]]

\* SC.beget(obj): a new object whose prototype is obj.
SC_beget(obj) == [NoObject EXCEPT !.alive = TRUE, !.proto = obj]

----------------------------------------------------------------------------
\* Property reads through the prototype chain.

RECURSIVE GetTargets(_, _)
GetTargets(H, obj) ==
    IF obj = SC__ObserverSet THEN ProtoTargets
    ELSE IF H[obj].hasTargets THEN H[obj].targets
    ELSE GetTargets(H, H[obj].proto)

RECURSIVE GetValid(_, _)
GetValid(H, obj) ==
    IF obj = SC__ObserverSet THEN ProtoMembersCacheIsValid
    ELSE IF H[obj].hasValid THEN H[obj].membersCacheIsValid
    ELSE GetValid(H, H[obj].proto)

\* The object whose own _members `this._members` reads (0: undefined).
RECURSIVE GetMembersRef(_, _)
GetMembersRef(H, obj) ==
    IF obj = SC__ObserverSet THEN 0
    ELSE IF H[obj].hasMembers THEN obj
    ELSE GetMembersRef(H, H[obj].proto)

\* The object whose own property `this[targetGuid]` reads (0: undefined).
RECURSIVE GetSetRef(_, _, _)
GetSetRef(H, obj, guid) ==
    IF obj = SC__ObserverSet THEN 0
    ELSE IF H[obj].sets[guid].present THEN obj
    ELSE GetSetRef(H, H[obj].proto, guid)

----------------------------------------------------------------------------
\* SC._ObserverSet

targetGuidOf(target) ==
    IF target \notin Falsy THEN SC_guidFor(target) ELSE <<"__this__", "">>

\* Variants of the invalidation: one that is missing, and one that also
\* empties the array the registry can reach.
invalidateNothing(H, this) == H
invalidateClearing(H, this) ==
    LET arr == GetMembersRef(H, this)
        H1 == IF arr = 0 THEN H ELSE [H EXCEPT ![arr].members = <<>>]
    IN  [H1 EXCEPT ![this].hasValid = TRUE, ![this].membersCacheIsValid = NO]

\* this._membersCacheIsValid = NO
invalidate(H, this) ==
    [H EXCEPT ![this].hasValid = TRUE, ![this].membersCacheIsValid = NO]

\* Variant: a set is made on every add.
noMethodsAlways(found) == TRUE

\* if (!methods): no set was found for the target.
noMethods(found) == found = 0

\* Variants of the stored back-reference: never stored, and stored as null
\* for every falsy target.
storedTargetForgotten(target) == "undefined"
storedTargetNormalised(target) == IF target \in Falsy THEN "null" ELSE target

\* methods.target = target
storedTarget(target) == target

add(H, this, target, method) ==
    LET targetGuid == targetGuidOf(target)
        found == GetSetRef(H, this, targetGuid)
        H1 == IF noMethods(found)
              THEN [H EXCEPT
                      ![this].keys = Append(@, targetGuid),
                      ![this].sets[targetGuid] =
                          [SC_Set_create EXCEPT !.target = storedTarget(target),
                                                !.isTargetSet = YES],
                      ![this].hasTargets = TRUE,
                      ![this].targets = GetTargets(H, this) + 1]
              ELSE H
        methods == IF noMethods(found) THEN this ELSE found
        H2 == [H1 EXCEPT ![methods].sets[targetGuid].items =
                             SC_Set_add(@, method)]
    IN  invalidate(H2, this)

\* Variants of the emptiness test: never true, and true one item early.
isEmptiedNever(length) == length < 0
isEmptiedEarly(length) == length <= 1

\* methods.length <= 0
isEmptied(length) == length <= 0

\* delete this[targetGuid]: only an own property is deleted.
deleteOwn(H, this, targetGuid) ==
    IF H[this].sets[targetGuid].present
    THEN [H EXCEPT
            ![this].keys = SelectSeq(@, LAMBDA k : k # targetGuid),
            ![this].sets[targetGuid] = NoSet]
    ELSE H

\* The value remove returns once it has found a set for the target.
removeFoundResult == YES

remove(H, this, target, method) ==
    LET targetGuid == targetGuidOf(target)
        methods == GetSetRef(H, this, targetGuid)
    IN  IF methods = 0 THEN [heap |-> H, ret |-> NO]
        ELSE
        LET H1 == [H EXCEPT ![methods].sets[targetGuid].items =
                                SC_Set_remove(@, method)]
            H2 == IF isEmptied(Len(H1[methods].sets[targetGuid].items))
                  THEN LET D1 == [H1 EXCEPT
                                    ![methods].sets[targetGuid].target = "null",
                                    ![methods].sets[targetGuid].isTargetSet = NO]
                           D2 == deleteOwn(D1, this, targetGuid)
                       IN  [D2 EXCEPT ![this].hasTargets = TRUE,
                                      ![this].targets = GetTargets(H, this) - 1]
                  ELSE H1
        IN  [heap |-> invalidate(H2, this), ret |-> removeFoundResult]

\* while(--idx>=0) ret.push([target, value[idx]]): value[idx] is items[idx+1].
RECURSIVE pushPairs(_, _, _, _)
pushPairs(ret, target, items, idx) ==
    IF idx - 1 >= 0
    THEN pushPairs(Append(ret, <<target, items[idx]>>), target, items, idx - 1)
    ELSE ret

\* for(var key in this): the own keys, in the order they were created.
RECURSIVE walkKeys(_, _, _)
walkKeys(obj, keys, ret) ==
    IF keys = <<>> THEN ret
    ELSE LET value == obj.sets[Head(keys)]
         IN  walkKeys(obj, Tail(keys),
                      IF value.isTargetSet
                      THEN pushPairs(ret, value.target, value.items,
                                     Len(value.items))
                      ELSE ret)

\* Variant: the array is not emptied before it is filled again.
resetArrayForgotten(members) == members

\* this._members.length = 0
resetArray(members) == <<>>

\* Returns the heap and the array returned (named by the object that owns it).
getMembers(H, this) ==
    IF GetValid(H, this) THEN [heap |-> H, ret |-> GetMembersRef(H, this)]
    ELSE
    LET old == GetMembersRef(H, this)
        arr == IF old = 0 THEN this ELSE old
        H1 == IF old = 0
              THEN [H EXCEPT ![this].hasMembers = TRUE, ![this].members = <<>>]
              ELSE [H EXCEPT ![old].members = resetArray(@)]
        H2 == [H1 EXCEPT ![arr].members = walkKeys(H1[this], H1[this].keys, @)]
    IN  [heap |-> [H2 EXCEPT ![this].hasValid = TRUE,
                             ![this].membersCacheIsValid = YES],
         ret |-> arr]

\* The contents of the array a call returned (no array: undefined).
ArrayOf(H, arr) ==
    IF arr = 0 THEN << <<"undefined", "undefined">> >> ELSE H[arr].members

\* The array members() would return in heap H.
WouldReturn(H, this) ==
    LET res == getMembers(H, this) IN ArrayOf(res.heap, res.ret)

create(H, this, new) == [H EXCEPT ![new] = SC_beget(this)]

\* Variant: the clone is begotten from the registry it copies.
cloneCreatesFromThis(this) == this

\* The object clone() makes its result from: SC._ObserverSet.create().
cloneCreates(this) == SC__ObserverSet

\* Variant: the count is not copied.
cloneTargetsForgotten(H, this) == ProtoTargets

\* ret.targets = this.targets
cloneTargets(H, this) == GetTargets(H, this)

\* The own target sets of the source, copied one key after the other.
RECURSIVE cloneKeys(_, _, _)
cloneKeys(obj, keys, ret) ==
    IF keys = <<>> THEN ret
    ELSE LET key == Head(keys)
             oldSet == obj.sets[key]
         IN  cloneKeys(obj, Tail(keys),
                 IF oldSet.isTargetSet
                 THEN [ret EXCEPT
                         !.keys = IF ret.sets[key].present THEN @
                                  ELSE Append(@, key),
                         !.sets[key] = [SC_Set_clone(oldSet) EXCEPT
                                          !.target = oldSet.target]]
                 ELSE ret)

clone(H, this, new) ==
    LET H1 == create(H, cloneCreates(this), new)
        ret == cloneKeys(H[this], H[this].keys, H1[new])
    IN  [H1 EXCEPT ![new] = [ret EXCEPT !.hasTargets = TRUE,
                                        !.targets = cloneTargets(H, this),
                                        !.hasValid = TRUE,
                                        !.membersCacheIsValid = NO,
                                        !.from = this]]

----------------------------------------------------------------------------
NoCall == [op |-> "none", reg |-> 0, target |-> "undefined", method |-> "",
           ret |-> "undefined", obj |-> 0, had |-> FALSE, after |-> "none",
           before |-> [members |-> <<>>, targets |-> 0]]

NotHeld == [arr |-> 0, val |-> <<>>, rebuilt |-> FALSE]

\* The handlers registered for target's key among this registry's own sets.
Registered(H, this, target, method) ==
    LET s == H[this].sets[targetGuidOf(target)]
    IN  s.present /\ method \in Range(s.items)

\* What the previous call was, when it had the same receiver and arguments.
After(this, target, method) ==
    IF call.reg = this /\ call.target = target /\ call.method = method
    THEN IF call.op = "add" THEN (IF call.had THEN "addOld" ELSE "addNew")
         ELSE call.op
    ELSE "none"

\* What a caller sees of a registry: members() and targets.
Observed(H, this) ==
    [members |-> WouldReturn(H, this), targets |-> GetTargets(H, this)]

\* No fmt call is being made.
NoFmt == [phase |-> "idle", template |-> <<>>, args |-> <<>>, out |-> <<>>]

Init ==
    /\ heap = [r \in Regs |-> IF r = 1 THEN SC_beget(SC__ObserverSet)
                              ELSE NoObject]
    /\ call = NoCall
    /\ held = NotHeld
    /\ nCalls = 0
    /\ fmtCall = NoFmt

Add(this, target, method) ==
    /\ nCalls < MaxCalls
    /\ heap[this].alive
    /\ heap' = add(heap, this, target, method)
    /\ call' = [NoCall EXCEPT !.op = "add", !.reg = this, !.target = target,
                              !.method = method,
                              !.had = Registered(heap, this, target, method),
                              !.after = After(this, target, method),
                              !.before = Observed(heap, this)]
    /\ nCalls' = nCalls + 1
    /\ UNCHANGED fmtCall
    /\ UNCHANGED held

Remove(this, target, method) ==
    /\ nCalls < MaxCalls
    /\ heap[this].alive
    /\ LET res == remove(heap, this, target, method)
       IN  /\ heap' = res.heap
           /\ call' = [NoCall EXCEPT
                         !.op = "remove", !.reg = this, !.target = target,
                         !.method = method,
                         !.ret = IF res.ret THEN "YES" ELSE "NO",
                         !.had = Registered(heap, this, target, method),
                         !.after = After(this, target, method),
                         !.before = IF After(this, target, method) = "addNew"
                                    THEN call.before ELSE NoCall.before]
    /\ nCalls' = nCalls + 1
    /\ UNCHANGED fmtCall
    /\ UNCHANGED held

\* The caller may keep the array it is given (a notification pass does).
GetMembers(this, keep) ==
    /\ nCalls < MaxCalls
    /\ heap[this].alive
    /\ LET res == getMembers(heap, this)
       IN  /\ heap' = res.heap
           /\ call' = [NoCall EXCEPT !.op = "getMembers", !.reg = this,
                                     !.ret = "object", !.obj = res.ret,
                                     !.had = GetValid(heap, this)]
           /\ held' = IF keep
                      THEN [arr |-> res.ret, val |-> ArrayOf(res.heap, res.ret),
                            rebuilt |-> FALSE]
                      ELSE IF held.arr = res.ret /\ ~GetValid(heap, this)
                      THEN [held EXCEPT !.rebuilt = TRUE]
                      ELSE held
    /\ nCalls' = nCalls + 1
    /\ UNCHANGED fmtCall

FreeReg == CHOOSE r \in Regs : ~heap[r].alive /\ \A q \in Regs : q < r => heap[q].alive

Clone(this) ==
    /\ nCalls < MaxCalls
    /\ heap[this].alive
    /\ \E r \in Regs : ~heap[r].alive
    /\ heap' = clone(heap, this, FreeReg)
    /\ call' = [NoCall EXCEPT !.op = "clone", !.reg = this, !.ret = "object",
                              !.obj = FreeReg]
    /\ nCalls' = nCalls + 1
    /\ UNCHANGED fmtCall
    /\ UNCHANGED held

\* SC._ObserverSet.create()
Create ==
    /\ nCalls < MaxCalls
    /\ \E r \in Regs : ~heap[r].alive
    /\ heap' = create(heap, SC__ObserverSet, FreeReg)
    /\ call' = [NoCall EXCEPT !.op = "create", !.reg = SC__ObserverSet,
                              !.ret = "object", !.obj = FreeReg]
    /\ nCalls' = nCalls + 1
    /\ UNCHANGED fmtCall
    /\ UNCHANGED held

Next ==
    \/ \E this \in Regs, target \in Targets, method \in Methods :
           Add(this, target, method)
    \/ \E this \in Regs, target \in Targets, method \in Methods :
           Remove(this, target, method)
    \/ \E this \in Regs, keep \in BOOLEAN : GetMembers(this, keep)
    \/ \E this \in Regs : Clone(this)
    \/ Create

Spec == Init /\ [][Next]_vars

----------------------------------------------------------------------------
\* What the callers can observe of a registry.

\* The (owner, handler) pairs held by the registry's own sets.
RegisteredPairs(H, this) ==
    {<<H[this].sets[g].target, m>> : <<g, m>> \in
        {gm \in Guids \X Methods :
            /\ H[this].sets[gm[1]].present
            /\ gm[2] \in Range(H[this].sets[gm[1]].items)}}

\* The owner keys that have at least one handler.
OwnersWithHandlers(H, this) ==
    {targetGuidOf(t) : t \in
        {u \in Targets : \E m \in Methods : Registered(H, this, u, m)}}

View(H, this) ==
    [keys |-> H[this].keys, sets |-> H[this].sets,
     targets |-> GetTargets(H, this), members |-> WouldReturn(H, this)]

Live == {r \in Regs : heap[r].alive}

----------------------------------------------------------------------------
\* C1: in every reachable state, and for every registry whether made by
\* create() or by clone(), targets equals the number of owner entries of the
\* mapping, which equals the number of owners with at least one handler.
C1_OwnerCount ==
    \A r \in Live :
        /\ GetTargets(heap, r) = Len(heap[r].keys)
        /\ GetTargets(heap, r) =
               Cardinality({g \in Guids : heap[r].sets[g].present})
        /\ GetTargets(heap, r) = Cardinality(OwnersWithHandlers(heap, r))

\* A clone with one owner left after a remove took another owner's last handler.
C1_Witness ==
    /\ call.op = "remove" /\ call.had
    /\ heap[call.reg].alive /\ heap[call.reg].from # 0
    /\ ~heap[call.reg].sets[targetGuidOf(call.target)].present
    /\ GetTargets(heap, call.reg) = 1

\* C2: the pairs members() returns are exactly the registered pairs, however
\* often the cache was filled before the last mutation: a valid cache holds
\* the flattening of the current mapping.
C2_MembersCurrent ==
    /\ \A r \in Live :
        /\ Range(WouldReturn(heap, r)) = RegisteredPairs(heap, r)
        /\ GetValid(heap, r) =>
               Range(ArrayOf(heap, GetMembersRef(heap, r))) =
                   RegisteredPairs(heap, r)
    /\ call.op = "getMembers" =>
           Range(ArrayOf(heap, call.obj)) = RegisteredPairs(heap, call.reg)

\* members() has rebuilt a cache that an earlier members() call had filled
\* with other pairs.
C2_Witness ==
    /\ call.op = "getMembers" /\ ~call.had
    /\ held.arr = call.obj /\ held.rebuilt
    /\ held.val # <<>>
    /\ Range(held.val) # RegisteredPairs(heap, call.reg)

\* C3: remove returns YES exactly when the handler was registered for the
\* owner before the call and is removed by it, and NO otherwise.
C3_RemoveReturnsWhetherRemoved ==
    call.op = "remove" =>
        (call.ret = "YES" <=>
            (call.had /\ ~Registered(heap, call.reg, call.target, call.method)))

\* C4 as stated: an array members() has returned never changes afterwards.
C4_SnapshotNeverChanges ==
    held.arr # 0 => ArrayOf(heap, held.arr) = held.val

\* C4 as amended: an array members() has returned keeps its contents through
\* add, remove, clone and create calls and through members() calls made
\* while the cache is valid; only a members() call that rebuilds the cache
\* of that registry rewrites it, in place.
C4_ChangedOnlyByRebuild ==
    held.arr # 0 => (ArrayOf(heap, held.arr) = held.val \/ held.rebuilt)

\* A held array whose registry was mutated and has not been rebuilt since.
C4_Witness ==
    /\ held.arr # 0 /\ ~held.rebuilt
    /\ call.op \in {"add", "remove"} /\ call.reg = held.arr
    /\ Range(held.val) # RegisteredPairs(heap, held.arr)
    /\ held.val # <<>>

\* C5: after b = a.clone(), add, remove and members calls on a leave b's
\* mapping, targets and members() as they are, and calls on b leave a's.
C5_CloneIndependent ==
    [][\A a \in Regs, b \in Regs :
          (/\ heap[a].alive /\ heap[b].alive
           /\ (heap[b].from = a \/ heap[a].from = b)
           /\ call'.reg = a
           /\ call'.op \in {"add", "remove", "getMembers"})
          => View(heap', b) = View(heap, b)]_vars

\* The source of a clone has lost a pair that the clone still returns.
C5_Witness ==
    /\ call.op = "remove" /\ call.had
    /\ \E b \in Live :
        /\ heap[b].from = call.reg
        /\ <<call.target, call.method>> \in Range(WouldReturn(heap, b))
        /\ <<call.target, call.method>> \notin
               Range(WouldReturn(heap, call.reg))

\* C6: right after b = a.clone(), b.members() and a.members() hold the same
\* pairs (with the same owners), b.targets = a.targets and b's cache is
\* invalid, whether a's cache was valid or not.
C6_CloneEqual ==
    call.op = "clone" =>
        /\ Range(WouldReturn(heap, call.obj)) =
               Range(WouldReturn(heap, call.reg))
        /\ RegisteredPairs(heap, call.obj) = RegisteredPairs(heap, call.reg)
        /\ GetTargets(heap, call.obj) = GetTargets(heap, call.reg)
        /\ ~GetValid(heap, call.obj)

\* A clone of a registry with two owners and a valid cache.
C6_Witness ==
    /\ call.op = "clone"
    /\ GetValid(heap, call.reg)
    /\ GetTargets(heap, call.reg) = 2

\* C7: remove of a pair that is not registered (no entry for the owner, or
\* an entry without this handler) leaves the mapping, targets and the
\* result of members() as they were.
C7_AbsentRemoveChangesNothing ==
    [][(call'.op = "remove" /\ ~call'.had)
          => View(heap', call'.reg) = View(heap, call'.reg)]_vars

\* remove has run for a handler the owner's existing entry does not hold.
C7_Witness ==
    /\ call.op = "remove" /\ ~call.had
    /\ heap[call.reg].sets[targetGuidOf(call.target)].present
    /\ GetTargets(heap, call.reg) = 2

\* C8: add is idempotent: an add of a pair that is registered already (the
\* second of two equal adds) leaves members() and targets unchanged.
C8_AddIdempotent ==
    [][(call'.op = "add" /\ call'.had)
          => /\ WouldReturn(heap', call'.reg) = WouldReturn(heap, call'.reg)
             /\ GetTargets(heap', call'.reg) = GetTargets(heap, call'.reg)]_vars

\* The same add has just run twice in a row.
C8_Witness ==
    /\ call.op = "add" /\ call.had /\ call.after = "addNew"

\* C9: for a pair that is not registered, add then remove returns YES and
\* leaves members() and targets as they were before the add.
C9_AddRemoveRoundTrip ==
    (call.op = "remove" /\ call.after = "addNew") =>
        /\ call.ret = "YES"
        /\ Observed(heap, call.reg) = call.before

\* remove has run right after the add of the same, new pair, for an owner
\* that keeps another handler.
C9_Witness ==
    /\ call.op = "remove" /\ call.after = "addNew" /\ call.ret = "YES"
    /\ heap[call.reg].sets[targetGuidOf(call.target)].present

\* C10: create() returns an empty registry: no owner entry, targets = 0, an
\* invalid cache, and a first members() that returns the empty array.
IsEmptyRegistry(H, r) ==
    /\ H[r].alive
    /\ H[r].keys = <<>>
    /\ \A g \in Guids : ~H[r].sets[g].present
    /\ GetTargets(H, r) = 0
    /\ ~GetValid(H, r)
    /\ WouldReturn(H, r) = <<>>

C10_CreateEmpty ==
    /\ nCalls = 0 => IsEmptyRegistry(heap, 1)
    /\ call.op = "create" => IsEmptyRegistry(heap, call.obj)

\* create() has run while another registry holds pairs and a valid cache.
C10_Witness ==
    /\ call.op = "create"
    /\ \E r \in Live : GetValid(heap, r) /\ GetTargets(heap, r) > 0

\* C11: no target set is stored empty: every owner entry of the mapping
\* holds at least one handler, and the remove that takes an owner's last
\* handler deletes the owner's entry in the same step.
C11_NoEmptySet ==
    /\ \A r \in Live : \A g \in Guids :
           heap[r].sets[g].present =>
               (heap[r].sets[g].items # <<>> /\ heap[r].sets[g].isTargetSet)
    /\ (call.op = "remove" /\ call.had
        /\ \A m \in Methods : ~Registered(heap, call.reg, call.target, m))
           => ~heap[call.reg].sets[targetGuidOf(call.target)].present

\* remove has taken the last handler of an owner, in a registry made by
\* create(), while another owner keeps its entry.
C11_Witness ==
    /\ call.op = "remove" /\ call.had /\ call.ret = "YES"
    /\ ~heap[call.reg].sets[targetGuidOf(call.target)].present
    /\ heap[call.reg].keys # <<>>
    /\ heap[call.reg].from = 0

\* The target sets of a registry that hold a handler.
SetsHolding(H, this, method) ==
    {g \in Guids : H[this].sets[g].present
                   /\ method \in Range(H[this].sets[g].items)}

\* C12 as stated: every handler that appears in the pairs of members()
\* belongs to the handlers of exactly one target set of the registry.
C12_HandlerInOneSet ==
    \A r \in Live :
        \A p \in Range(WouldReturn(heap, r)) :
            Cardinality(SetsHolding(heap, r, p[2])) = 1

\* C12 as amended: every (owner, handler) pair that appears in members()
\* comes from exactly one target set of the registry, the set stored for
\* that owner, which holds the handler; one handler may be registered for
\* several owners.
C12_PairInOneSet ==
    \A r \in Live :
        \A p \in Range(WouldReturn(heap, r)) :
            Cardinality({g \in SetsHolding(heap, r, p[2]) :
                            heap[r].sets[g].target = p[1]}) = 1

\* One handler is registered for two owners of a registry.
C12_Witness ==
    \E r \in Live : \E m \in Methods :
        /\ Cardinality(SetsHolding(heap, r, m)) = 2
        /\ Len(WouldReturn(heap, r)) >= 2

\* The set stored under the key that every falsy target shares.
NoOwnerSet(H, this) == H[this].sets[targetGuidOf("null")]

\* C16: all registrations without an owner share one bucket: add with null
\* or with undefined uses the same set, which counts as one owner in
\* targets; remove with either value takes the handler out; the owner that
\* members() reports for the bucket is the target of the add that created
\* it.
C16_OneNoOwnerBucket ==
    [][/\ (call'.op = "add" /\ call'.target \in Falsy) =>
            LET old == NoOwnerSet(heap, call'.reg)
                new == NoOwnerSet(heap', call'.reg)
            IN  /\ new.present
                /\ call'.method \in Range(new.items)
                /\ new.target = IF old.present THEN old.target
                                ELSE call'.target
                /\ GetTargets(heap', call'.reg) =
                       GetTargets(heap, call'.reg)
                           + (IF old.present THEN 0 ELSE 1)
                /\ \A m \in Range(new.items) :
                       \A p \in Range(WouldReturn(heap', call'.reg)) :
                           (p[1] \in Falsy /\ p[2] = m) => p[1] = new.target
                /\ \A m \in Range(new.items) :
                       <<new.target, m>> \in
                           Range(WouldReturn(heap', call'.reg))
       /\ (call'.op = "remove" /\ call'.target \in Falsy) =>
            LET old == NoOwnerSet(heap, call'.reg)
                new == NoOwnerSet(heap', call'.reg)
            IN  /\ call'.method \notin Range(new.items)
                /\ \A t \in Falsy :
                       ~Registered(heap', call'.reg, t, call'.method)
                /\ new.present => (old.present /\ new.target = old.target)
      ]_vars

\* A handler added with one falsy value has been removed with the other,
\* from a bucket that a second handler keeps alive under the first value.
C16_Witness ==
    /\ call.op = "remove" /\ call.had /\ call.target \in Falsy
    /\ NoOwnerSet(heap, call.reg).present
    /\ NoOwnerSet(heap, call.reg).target \in Falsy \ {call.target}
    /\ GetTargets(heap, call.reg) = 1

\* C18: the array members() returns holds every registered pair exactly
\* once, also after a repeated add, after a remove followed by a new add,
\* and after a rebuild into an array that was filled before.
NoDuplicates(seq) == \A i, j \in 1 .. Len(seq) : seq[i] = seq[j] => i = j

C18_EachPairOnce ==
    /\ \A r \in Live :
        /\ NoDuplicates(WouldReturn(heap, r))
        /\ Len(WouldReturn(heap, r)) = Cardinality(RegisteredPairs(heap, r))
    /\ call.op = "getMembers" =>
        /\ NoDuplicates(ArrayOf(heap, call.obj))
        /\ Len(ArrayOf(heap, call.obj)) =
               Cardinality(RegisteredPairs(heap, call.reg))

\* members() has refilled an array that held pairs before, and returns two
\* pairs.
C18_Witness ==
    /\ call.op = "getMembers" /\ ~call.had
    /\ held.arr = call.obj /\ held.rebuilt /\ held.val # <<>>
    /\ Len(ArrayOf(heap, call.obj)) = 2

\* C14: the cache starts invalid; every members() call leaves it valid; it
\* goes from valid to invalid only on an add or on a remove that removed a
\* handler, so a remove that removes nothing (no entry for the owner, or an
\* entry without the handler) leaves a valid cache valid.
C14_CacheMachine ==
    /\ \A r \in Regs : ~GetValid(heap, r)
    /\ [][/\ call'.op = "getMembers" => GetValid(heap', call'.reg)
          /\ \A r \in Regs :
                (heap[r].alive /\ GetValid(heap, r) /\ ~GetValid(heap', r))
                    => /\ call'.reg = r
                       /\ \/ call'.op = "add"
                          \/ call'.op = "remove" /\ call'.had
         ]_vars

----------------------------------------------------------------------------
\* The registries with create() also called on an instance: r.create().

CreateOn(this) ==
    /\ nCalls < MaxCalls
    /\ heap[this].alive
    /\ \E r \in Regs : ~heap[r].alive
    /\ heap' = create(heap, this, FreeReg)
    /\ call' = [NoCall EXCEPT !.op = "create", !.reg = this,
                              !.ret = "object", !.obj = FreeReg]
    /\ nCalls' = nCalls + 1
    /\ UNCHANGED fmtCall
    /\ UNCHANGED held

NextProto ==
    \/ Next
    \/ \E this \in Regs : CreateOn(this)

SpecProto == Init /\ [][NextProto]_vars

\* C15: registries made by create() share no mutable state: a registry made
\* by create(), also by create() called on an instance, starts empty with
\* targets = 0 and an invalid cache, and add, remove and members calls on
\* one registry leave the mapping, targets and members() of the other as
\* they are.
C15_CreateSharesNothing ==
    /\ [](call.op = "create" => IsEmptyRegistry(heap, call.obj))
    /\ [][\A a \in Regs, b \in Regs :
             (/\ a # b /\ heap[a].alive /\ heap[b].alive
              /\ heap[a].from = 0 /\ heap[b].from = 0
              /\ call'.reg = a
              /\ call'.op \in {"add", "remove", "getMembers"})
             => View(heap', b) = View(heap, b)]_vars

----------------------------------------------------------------------------
\* Two registries made by create() that are given the same add and remove
\* calls, each with members() calls of its own in between.

Twins == {1, 2}

InitTwin ==
    /\ heap = [r \in Regs |-> IF r \in Twins THEN SC_beget(SC__ObserverSet)
                              ELSE NoObject]
    /\ call = NoCall
    /\ held = NotHeld
    /\ nCalls = 0
    /\ fmtCall = NoFmt

TwinAdd(target, method) ==
    /\ nCalls < MaxCalls
    /\ heap' = add(add(heap, 1, target, method), 2, target, method)
    /\ call' = [NoCall EXCEPT !.op = "add", !.target = target,
                              !.method = method]
    /\ nCalls' = nCalls + 1
    /\ UNCHANGED fmtCall
    /\ UNCHANGED held

TwinRemove(target, method) ==
    /\ nCalls < MaxCalls
    /\ LET first == remove(heap, 1, target, method)
           second == remove(first.heap, 2, target, method)
       IN  /\ heap' = second.heap
           /\ call' = [NoCall EXCEPT
                         !.op = "remove", !.target = target,
                         !.method = method,
                         !.ret = IF first.ret THEN "YES" ELSE "NO",
                         !.had = Registered(heap, 1, target, method)]
    /\ nCalls' = nCalls + 1
    /\ UNCHANGED fmtCall
    /\ UNCHANGED held

TwinGetMembers(this) ==
    /\ nCalls < MaxCalls
    /\ LET res == getMembers(heap, this)
       IN  /\ heap' = res.heap
           /\ call' = [NoCall EXCEPT !.op = "getMembers", !.reg = this,
                                     !.ret = "object", !.obj = res.ret,
                                     !.had = GetValid(heap, this)]
    /\ nCalls' = nCalls + 1
    /\ UNCHANGED fmtCall
    /\ UNCHANGED held

NextTwin ==
    \/ \E target \in Targets, method \in Methods : TwinAdd(target, method)
    \/ \E target \in Targets, method \in Methods : TwinRemove(target, method)
    \/ \E this \in Twins : TwinGetMembers(this)

SpecTwin == InitTwin /\ [][NextTwin]_vars

\* C17: the order of members() is deterministic: two registries that were
\* given the same add and remove calls return the same sequence of pairs,
\* however many members() calls each of them served in between.
C17_SameCallsSameOrder ==
    /\ WouldReturn(heap, 1) = WouldReturn(heap, 2)
    /\ call.op = "getMembers" =>
           ArrayOf(heap, call.obj) = WouldReturn(heap, 3 - call.reg)

\* One registry has just rebuilt and returned two pairs or more; the other
\* holds another, stale array from an earlier members() call.
C17_Witness ==
    /\ call.op = "getMembers" /\ ~call.had
    /\ Len(ArrayOf(heap, call.obj)) >= 2
    /\ ~GetValid(heap, 3 - call.reg)
    /\ heap[3 - call.reg].hasMembers
    /\ heap[3 - call.reg].members # ArrayOf(heap, call.obj)
    /\ heap[3 - call.reg].members # <<>>

----------------------------------------------------------------------------
\* SC.String.fmt (src/mixins/string.js).  A string is a sequence of
\* characters; an argument is a string of one character, null or undefined.

Chars == {"%", "@", "1", "2"}
Digits == {"1", "2"}
DigitOf == ("1" :> 1) @@ ("2" :> 2)
ArgString == <<"x", "y", "z">>

Templates == UNION {[1 .. n -> Chars] : n \in 0 .. MaxLen}

ArgLists ==
    UNION {{a \in [1 .. n -> {"x", "y", "z", "null", "undefined"}] :
               \A i \in 1 .. n : a[i] \in {ArgString[i], "null", "undefined"}} :
           n \in 0 .. MaxArgs}

\* parseInt(argIndex, 0) of a string of decimal digits.
RECURSIVE parseInt(_)
parseInt(digits) ==
    IF digits = <<>> THEN 0
    ELSE parseInt(SubSeq(digits, 1, Len(digits) - 1)) * 10
             + DigitOf[digits[Len(digits)]]

\* /%@([0-9]+)?/g: the start of the leftmost match at or after pos (0: none).
RECURSIVE nextMatch(_, _)
nextMatch(str, pos) ==
    IF pos + 1 > Len(str) THEN 0
    ELSE IF str[pos] = "%" /\ str[pos + 1] = "@" THEN pos
    ELSE nextMatch(str, pos + 1)

\* ([0-9]+)?: the longest run of digits that starts at pos.
RECURSIVE digitRun(_, _)
digitRun(str, pos) ==
    IF pos <= Len(str) /\ str[pos] \in Digits
    THEN <<str[pos]>> \o digitRun(str, pos + 1)
    ELSE <<>>

\* Variant: the number is used as it is written, counted from 0.
argIndexOfFromZero(argIndex, idx) ==
    IF argIndex # <<>> THEN parseInt(argIndex) ELSE idx

\* argIndex = (argIndex) ? parseInt(argIndex,0)-1 : idx++
argIndexOf(argIndex, idx) ==
    IF argIndex # <<>> THEN parseInt(argIndex) - 1 ELSE idx

\* s = args[argIndex]
argAt(args, argIndex) ==
    IF argIndex + 1 \in 1 .. Len(args) THEN args[argIndex + 1]
    ELSE "undefined"

\* ((s===null) ? '(null)' : (s==undefined) ? '' : s).toString()
toText(s) ==
    IF s = "null" THEN <<"(", "n", "u", "l", "l", ")">>
    ELSE IF s = "undefined" THEN <<>>
    ELSE <<s>>

\* this.replace(regexp, callback) from pos on, with the callback's counter.
RECURSIVE replaceFrom(_, _, _, _)
replaceFrom(str, args, pos, idx) ==
    LET m == nextMatch(str, pos)
    IN  IF m = 0 THEN SubSeq(str, pos, Len(str))
        ELSE LET argIndex == digitRun(str, m + 2)
             IN  SubSeq(str, pos, m - 1)
                     \o toText(argAt(args, argIndexOf(argIndex, idx)))
                     \o replaceFrom(str, args, m + 2 + Len(argIndex),
                                    IF argIndex # <<>> THEN idx ELSE idx + 1)

fmt(str, args) == replaceFrom(str, args, 1, 0)

InitFmt ==
    /\ heap = [r \in Regs |-> IF r = 1 THEN SC_beget(SC__ObserverSet)
                              ELSE NoObject]
    /\ call = NoCall
    /\ held = NotHeld
    /\ nCalls = 0
    /\ fmtCall \in {[phase |-> "call", template |-> t, args |-> a,
                     out |-> <<>>] : t \in Templates, a \in ArgLists}

Fmt ==
    /\ fmtCall.phase = "call"
    /\ fmtCall' = [fmtCall EXCEPT !.phase = "done",
                                  !.out = fmt(fmtCall.template, fmtCall.args)]
    /\ UNCHANGED <<heap, call, held, nCalls>>

NextFmt == Fmt

SpecFmt == InitFmt /\ [][NextFmt]_vars

\* The tokens of a template, position by position.
TokenAt(str, i) == i + 1 <= Len(str) /\ str[i] = "%" /\ str[i + 1] = "@"

\* The number of digits that follow the token at i.
DigitCount(str, i) ==
    CHOOSE k \in 0 .. Len(str) :
        /\ \A j \in 1 .. k : i + 1 + j <= Len(str) /\ str[i + 1 + j] \in Digits
        /\ ~(i + 2 + k <= Len(str) /\ str[i + 2 + k] \in Digits)

\* The number N written after the token at i.
RECURSIVE Power10(_)
Power10(k) == IF k = 0 THEN 1 ELSE 10 * Power10(k - 1)

NumberAt(str, i) ==
    LET k == DigitCount(str, i)
        Place[j \in 0 .. k] ==
            IF j = 0 THEN 0
            ELSE Place[j - 1] + DigitOf[str[i + 1 + j]] * Power10(k - j)
    IN  Place[k]

\* The argument, counted from 1, that the token at i stands for.
ArgumentOf(str, i) ==
    IF DigitCount(str, i) > 0 THEN NumberAt(str, i)
    ELSE Cardinality({j \in 1 .. i : TokenAt(str, j)
                                     /\ DigitCount(str, j) = 0})

\* The text of the n-th argument.
TextOf(args, n) ==
    IF n \notin 1 .. Len(args) THEN <<>>
    ELSE IF args[n] = "undefined" THEN <<>>
    ELSE IF args[n] = "null" THEN <<"(", "n", "u", "l", "l", ")">>
    ELSE <<args[n]>>

\* What stands in the result for position i of the template.
PieceAt(str, args, i) ==
    IF TokenAt(str, i) THEN TextOf(args, ArgumentOf(str, i))
    ELSE IF \E j \in 1 .. (i - 1) :
                TokenAt(str, j) /\ i <= j + 1 + DigitCount(str, j)
    THEN <<>>
    ELSE <<str[i]>>

Formatted(str, args) ==
    LET Upto[i \in 0 .. Len(str)] ==
            IF i = 0 THEN <<>> ELSE Upto[i - 1] \o PieceAt(str, args, i)
    IN  Upto[Len(str)]

\* C13: fmt replaces every %@ by the next positional argument (the counter
\* advances on the tokens without a number only) and every %@N by the N-th
\* argument counted from 1; a missing or undefined argument gives the empty
\* string, null gives (null); all other text stays as it is.
C13_FmtSubstitutes ==
    fmtCall.phase = "done" =>
        fmtCall.out = Formatted(fmtCall.template, fmtCall.args)

\* fmt has returned for a template with a numbered token followed by a token
\* without a number, with a null argument, and the two tokens gave
\* different texts.
C13_Witness ==
    /\ fmtCall.phase = "done"
    /\ \E i \in 1 .. Len(fmtCall.template), j \in 1 .. Len(fmtCall.template) :
        /\ i < j
        /\ TokenAt(fmtCall.template, i)
        /\ DigitCount(fmtCall.template, i) > 0
        /\ TokenAt(fmtCall.template, j)
        /\ DigitCount(fmtCall.template, j) = 0
    /\ "(" \in Range(fmtCall.out)
    /\ "x" \in Range(fmtCall.out)
====
